---- MODULE Spec2Model ----
(***************************************************************************)
(* Model of the exam platform's in-memory store (server/storage.ts,        *)
(* class MemStorage) and of the exam-start and login routes of             *)
(* server/routes.ts.                                                       *)
(*                                                                         *)
(* The five maps of MemStorage are the state.  Every storage method that   *)
(* runs without suspending is one action.  submitExam and getExam suspend  *)
(* at `await this.getQuiz(..)` / `await this.getQuestion(..)`; each of     *)
(* their calls is a small process (one slot of `calls`) that moves from    *)
(* one await to the next, so other operations may run in between.          *)
(***************************************************************************)
EXTENDS Integers, Sequences, FiniteSets, TLC

\* ------------------------------------------------------------------ bounds
MaxQuestions    == 2   \* question ids ever issued by createQuestion
MaxExams        == 1   \* exam ids ever issued by createExam
MaxAnswers      == 1   \* longest answers array a client submits (Spec, SpecRace, SpecSessions)
MaxScoreAnswers == 2   \* longest answers array a client submits (SpecScore)
MaxTime         == 1   \* the clock runs from 0 to MaxTime

\* One id of each of these is enough for the exam lifecycle.
SubjectIdsAll == {1}
QuizIdsAll    == {1}
UserIdsAll    == {1}
Procs         == {"a", "b"}            \* callers of the store

\* ------------------------------------------------------------ value spaces
Null == "null"
None == <<>>
Some(x) == <<x>>
IsSome(o) == Len(o) = 1
Val(o) == o[1]

\* shared/schema.ts: the option-key enum
OptionKeys == {"option1", "option2", "option3", "option4"}
\* Answers a client of the model sends: null, or one of two of the four keys.
Answers == {Null, "option1", "option2"}
\* Correct keys an admin of the model stores.
CorrectKeys == {"option1", "option2"}
\* Question bodies an admin of the model types in: text and four option texts.
Bodies ==
    { [text |-> "t1", option1 |-> "a", option2 |-> "b", option3 |-> "c", option4 |-> "d"] }
QuizNames == {"n1", "n2"}
SubjectNames == {"s1"}
\* startExamSchema admits the counts 20, 25 and 50; the model scales these
\* buckets down to pools it can hold.
QuestionCounts == {1, 2}
\* Counts a client asks for: the buckets, and one the schema does not admit.
CountArgs == QuestionCounts \cup {0}

\* One hour of the clock: `60 * 60 * 1000` ms in the code, two ticks here, so
\* that an hour and a half is a whole number of ticks.
TicksPerHour == 2
\* JSON values a client sends as `hours`: a number, kept as the ticks it
\* lasts (-1 h, 0 h, 1 h, 1.5 h), or a string.
HoursArgs ==
    {[type |-> "number", ticks |-> t] : t \in {0 - TicksPerHour, 0, TicksPerHour, TicksPerHour + 1}}
        \cup {[type |-> "string", ticks |-> TicksPerHour]}
\* Answers arrays the students of SpecAccess submit: none, one right answer,
\* one wrong answer.
AccessAnswers ==
    {<<>>, <<[questionId |-> 1, answer |-> "option1"]>>,
     <<[questionId |-> 2, answer |-> "option1"]>>}
\* Students of the seeded stores: the owner of the exam and another one.
StudentIds == {1, 2}

VARIABLES
    users,      \* MemStorage.users:     user id     -> User
    subjects,   \* MemStorage.subjects:  subject id  -> Subject
    quizzes,    \* MemStorage.quizzes:   quiz id     -> Quiz
    questions,  \* MemStorage.questions: question id -> Question
    exams,      \* MemStorage.exams:     exam id     -> Exam
    issued,     \* how many ids randomUUID() has handed out, per kind
    now,        \* the wall clock read by `new Date()`
    calls       \* per caller: the storage call in flight, or its return value

vars == <<users, subjects, quizzes, questions, exams, issued, now, calls>>

\* ------------------------------------------------------------ map helpers
Put(f, k, v) == [x \in (DOMAIN f) \cup {k} |-> IF x = k THEN v ELSE f[x]]
Remove(f, k) == [x \in (DOMAIN f) \ {k} |-> f[x]]
Get(f, k) == IF k \in DOMAIN f THEN Some(f[k]) ELSE None

RECURSIVE SeqsUpTo(_, _)
SeqsUpTo(S, n) ==
    IF n = 0 THEN {<<>>}
    ELSE LET shorter == SeqsUpTo(S, n - 1)
         IN  shorter \cup {Append(s, x) : s \in {t \in shorter : Len(t) = n - 1}, x \in S}

Range(s) == {s[i] : i \in DOMAIN s}
IsInjective(s) == \A i, j \in DOMAIN s : s[i] = s[j] => i = j

\* ------------------------------------------------------------- Init
\* The state once the constructor and initializeDefaultAdmin have settled:
\* four empty maps and the admin account (id 0) in `users`.
AdminId == 0
\* A caller's slot: the call in flight (pc at an await) or the value its
\* last call returned.  examId and answers are the call's arguments; i, acc
\* and correctCount are the loop position, the array built so far (results
\* of submitExam, questions of getExam) and submitExam's counter; fetched is
\* the value the pending await will deliver; ret is the value returned.
\* For a route, request is what the client sent and ret the response.
\* `opened` remembers what the call saw on entry: the exam was stored and
\* not submitted.
Call(op, pc, examId, opened, answers, i, fetched, acc, correctCount, ret) ==
    [op |-> op, pc |-> pc, examId |-> examId, opened |-> opened, answers |-> answers,
     quiz |-> None, request |-> None, i |-> i, fetched |-> fetched, acc |-> acc,
     correctCount |-> correctCount, ret |-> ret]

NoRet == [kind |-> "none"]
Idle == Call("idle", "idle", 0, FALSE, <<>>, 0, None, <<>>, 0, NoRet)

Init ==
    /\ users = (AdminId :> [id |-> AdminId, username |-> "admin", role |-> "admin",
                            expiration |-> None])
    /\ subjects = <<>>
    /\ quizzes = <<>>
    /\ questions = <<>>
    /\ exams = <<>>
    /\ issued = [user |-> 0, subject |-> 0, quiz |-> 0, question |-> 0, exam |-> 0]
    /\ now = 0
    /\ calls = [p \in Procs |-> Idle]

\* The clock advances on its own.
Tick ==
    /\ now < MaxTime
    /\ now' = now + 1
    /\ UNCHANGED <<users, subjects, quizzes, questions, exams, issued, calls>>

\* ------------------------------------------------------------- users
\* createUser: a fresh id; `insertUser.expiration || null`.
CreateUser(expiration) ==
    /\ issued.user < Cardinality(UserIdsAll)
    /\ LET id == issued.user + 1
       IN  /\ users' = Put(users, id, [id |-> id, username |-> "student", role |-> "student",
                                       expiration |-> expiration])
           /\ issued' = [issued EXCEPT !.user = id]
    /\ UNCHANGED <<subjects, quizzes, questions, exams, now, calls>>

DeleteUser(id) ==
    /\ id \in DOMAIN users
    /\ users' = Remove(users, id)
    /\ UNCHANGED <<subjects, quizzes, questions, exams, issued, now, calls>>

\* A faulty ExtendedExpiration: the hours are added to the stored expiration
\* even when it lies in the past.
ExtendedExpirationFromOld(user, hours) ==
    (IF IsSome(user.expiration) THEN Val(user.expiration) ELSE now) + hours

\* extendUserAccess: base = max(current expiration or now, now); the new
\* expiration is base + hours.  A missing user throws and changes nothing.
\* `hours` is the duration `hours * 60 * 60 * 1000` counted in ticks of the
\* clock.
ExtendedExpiration(user, hours) ==
    LET currentExpiration == IF IsSome(user.expiration) THEN Val(user.expiration) ELSE now
        baseTime == IF currentExpiration > now THEN currentExpiration ELSE now
    IN  baseTime + hours

ExtendUserAccess(userId, hours) ==
    /\ userId \in DOMAIN users
    /\ ExtendedExpiration(users[userId], hours) <= MaxTime + 1
    /\ users' = [users EXCEPT ![userId].expiration =
                     Some(ExtendedExpiration(users[userId], hours))]
    /\ UNCHANGED <<subjects, quizzes, questions, exams, issued, now, calls>>

\* ------------------------------------------------------------- questions
GetQuestion(id) == Get(questions, id)
GetQuiz(id) == Get(quizzes, id)

\* getQuestionsByQuiz: the stored questions of one quiz, in insertion order
\* of the map (ids are issued in increasing order and never reused).
RECURSIVE SortedSeq(_)
SortedSeq(S) ==
    IF S = {} THEN <<>>
    ELSE LET m == CHOOSE x \in S : \A y \in S : x <= y
         IN  <<m>> \o SortedSeq(S \ {m})

GetQuestionsByQuiz(qs, quizId) ==
    SortedSeq({id \in DOMAIN qs : qs[id].quizId = quizId})

\* What an admin sends for a question: InsertQuestion.
InsertQuestions ==
    { [quizId |-> qz, text |-> b.text, option1 |-> b.option1, option2 |-> b.option2,
       option3 |-> b.option3, option4 |-> b.option4, correct |-> c] :
         qz \in 1..issued.quiz, b \in Bodies, c \in CorrectKeys }

QuestionOf(id, ins) ==
    [id |-> id, quizId |-> ins.quizId, text |-> ins.text, option1 |-> ins.option1,
     option2 |-> ins.option2, option3 |-> ins.option3, option4 |-> ins.option4,
     correct |-> ins.correct]

CreateQuestion(ins) ==
    /\ issued.question < MaxQuestions
    /\ LET id == issued.question + 1
       IN  /\ questions' = Put(questions, id, QuestionOf(id, ins))
           /\ issued' = [issued EXCEPT !.question = id]
    /\ UNCHANGED <<users, subjects, quizzes, exams, now, calls>>

\* updateQuestion throws on a missing id, else overwrites every field but id.
UpdateQuestion(id, ins) ==
    /\ id \in DOMAIN questions
    /\ questions' = [questions EXCEPT ![id] = QuestionOf(id, ins)]
    /\ UNCHANGED <<users, subjects, quizzes, exams, issued, now, calls>>

DeleteQuestion(id) ==
    /\ id \in DOMAIN questions
    /\ questions' = Remove(questions, id)
    /\ UNCHANGED <<users, subjects, quizzes, exams, issued, now, calls>>

\* ------------------------------------------------------------- quizzes
QuestionsWithoutQuiz(qs, quizId) ==
    [id \in {q \in DOMAIN qs : qs[q].quizId # quizId} |-> qs[id]]

CreateQuiz(subjectId, name) ==
    /\ issued.quiz < Cardinality(QuizIdsAll)
    /\ LET id == issued.quiz + 1
       IN  /\ quizzes' = Put(quizzes, id, [id |-> id, subjectId |-> subjectId, name |-> name,
                                           description |-> ""])
           /\ issued' = [issued EXCEPT !.quiz = id]
    /\ UNCHANGED <<users, subjects, questions, exams, now, calls>>

UpdateQuiz(id, subjectId, name) ==
    /\ id \in DOMAIN quizzes
    /\ quizzes' = [quizzes EXCEPT ![id] = [id |-> id, subjectId |-> subjectId, name |-> name,
                                           description |-> ""]]
    /\ UNCHANGED <<users, subjects, questions, exams, issued, now, calls>>

\* deleteQuiz: removes every question naming the quiz, then the quiz; an id
\* that is no longer stored still sweeps the questions that name it.
DeleteQuiz(id) ==
    /\ id \in 1..issued.quiz
    /\ questions' = QuestionsWithoutQuiz(questions, id)
    /\ quizzes' = Remove(quizzes, id)
    /\ UNCHANGED <<users, subjects, exams, issued, now, calls>>

\* ------------------------------------------------------------- subjects
CreateSubject(name) ==
    /\ issued.subject < Cardinality(SubjectIdsAll)
    /\ LET id == issued.subject + 1
       IN  /\ subjects' = Put(subjects, id, [id |-> id, name |-> name])
           /\ issued' = [issued EXCEPT !.subject = id]
    /\ UNCHANGED <<users, quizzes, questions, exams, now, calls>>

UpdateSubject(id, name) ==
    /\ id \in DOMAIN subjects
    /\ subjects' = [subjects EXCEPT ![id] = [id |-> id, name |-> name]]
    /\ UNCHANGED <<users, quizzes, questions, exams, issued, now, calls>>

\* deleteSubject: deleteQuiz for each quiz of the subject, then the subject.
DeleteSubject(id) ==
    /\ id \in 1..issued.subject
    /\ LET gone == {q \in DOMAIN quizzes : quizzes[q].subjectId = id}
       IN  /\ questions' = [q \in {x \in DOMAIN questions : questions[x].quizId \notin gone}
                               |-> questions[q]]
           /\ quizzes' = [q \in (DOMAIN quizzes) \ gone |-> quizzes[q]]
    /\ subjects' = Remove(subjects, id)
    /\ UNCHANGED <<users, exams, issued, now, calls>>

\* ------------------------------------------------------------- access guard
\* A faulty RequireStudent: the expiration is not looked at.
RequireStudentAnyTime(userId) ==
    IF userId \notin DOMAIN users \/ users[userId].role # "student" THEN "Forbidden"
    ELSE "next"

\* requireStudent (routes): the user of the login session must be stored, be
\* a student, and must not have an expiration earlier than now.
RequireStudent(userId) ==
    IF userId \notin DOMAIN users \/ users[userId].role # "student" THEN "Forbidden"
    ELSE IF IsSome(users[userId].expiration) /\ Val(users[userId].expiration) < now
         THEN "Access expired"
         ELSE "next"

\* ------------------------------------------------------------- exams
\* A faulty NewExam: the exam is born submitted, with an empty summary.
NewExamSubmitted(id, userId, quizId, questionIds) ==
    [id |-> id, userId |-> userId, quizId |-> quizId, questionIds |-> questionIds,
     answers |-> <<>>, submitted |-> TRUE,
     results |-> Some([totalQuestions |-> Len(questionIds), correctAnswers |-> 0,
                       percentage |-> [num |-> 0, den |-> Len(questionIds)],
                       results |-> <<>>])]

\* createExam: a fresh id, the given sequence, no answers, not submitted,
\* no results.
NewExam(id, userId, quizId, questionIds) ==
    [id |-> id, userId |-> userId, quizId |-> quizId, questionIds |-> questionIds,
     answers |-> <<>>, submitted |-> FALSE, results |-> None]

CreateExam(userId, quizId, questionIds) ==
    LET id == issued.exam + 1
    IN  /\ exams' = Put(exams, id, NewExam(id, userId, quizId, questionIds))
        /\ issued' = [issued EXCEPT !.exam = id]

\* ------------------------------------------------------------- callers
Returned(op, examId, opened, ret) ==
    Call(op, "returned", examId, opened, <<>>, 0, None, <<>>, 0, ret)

IsOpen(examId) == examId \in DOMAIN exams /\ ~exams[examId].submitted
CanCall(p) == calls[p].pc \in {"idle", "returned"}

\* ------------------------------------------------------------- exam start
\* Every order `[...questions].sort(() => Math.random() - 0.5)` can leave the
\* copy in: the comparator answers at random, so any arrangement of the same
\* elements may come out.
RECURSIVE Shuffles(_)
Shuffles(s) ==
    IF s = <<>> THEN {<<>>}
    ELSE UNION { { <<s[i]>> \o t :
                     t \in Shuffles(SubSeq(s, 1, i - 1) \o SubSeq(s, i + 1, Len(s))) } :
                 i \in DOMAIN s }

\* A faulty Slice: one element too many.
SliceOneMore(s, count) == SubSeq(s, 1, IF count + 1 < Len(s) THEN count + 1 ELSE Len(s))

\* `shuffled.slice(0, count)`: the first `count` elements, or all of them when
\* there are fewer.
Slice(s, count) == SubSeq(s, 1, IF count < Len(s) THEN count ELSE Len(s))

\* The sampler of POST /api/exam/start: the pool shuffled, cut to `count`,
\* mapped to ids (the pool of the model is already a sequence of ids).
Samples(pool, count) == {Slice(shuffled, count) : shuffled \in Shuffles(pool)}

\* What a route answers: res.status(..).json(..).
Response(body) == [kind |-> "response", value |-> body]
Rejected(status, message) == Response([status |-> status, message |-> message])

\* A faulty NotEnough: the message names the requested count only.
NotEnoughWithoutPool(has, requested) ==
    Response([status |-> 400, message |-> "Not enough questions",
              has |-> requested, requested |-> requested])

\* `Not enough questions. Quiz has ${questions.length} questions, but ${count}
\* were requested.`: the two numbers of the message are kept as fields.
NotEnough(has, requested) ==
    Response([status |-> 400, message |-> "Not enough questions",
              has |-> has, requested |-> requested])

\* A faulty ValidCount: zero passes the schema.
ValidCountOrZero(count) == count \in QuestionCounts \cup {0}

\* startExamSchema: questionCount is one of the enum's buckets.
ValidCount(count) == count \in QuestionCounts

\* POST /api/exam/start, behind requireStudent: 403 from the guard, 400 for a
\* count outside the schema or a pool smaller than the count; else a sample
\* of the pool is stored as a new exam and its id is answered.
StartExam(p, userId, quizId, count) ==
    /\ CanCall(p)
    /\ LET guard == RequireStudent(userId)
           pool == GetQuestionsByQuiz(questions, quizId)
           request == Some([userId |-> userId, quizId |-> quizId, count |-> count])
       IN  IF guard # "next"
           THEN /\ calls' = [calls EXCEPT ![p] =
                       [Returned("startExam", 0, FALSE, Rejected(403, guard))
                           EXCEPT !.request = request]]
                /\ UNCHANGED <<exams, issued>>
           ELSE IF ~ValidCount(count)
           THEN /\ calls' = [calls EXCEPT ![p] =
                       [Returned("startExam", 0, FALSE, Rejected(400, "Invalid enum value"))
                           EXCEPT !.request = request]]
                /\ UNCHANGED <<exams, issued>>
           ELSE IF Len(pool) < count
           THEN /\ calls' = [calls EXCEPT ![p] =
                       [Returned("startExam", 0, FALSE, NotEnough(Len(pool), count))
                           EXCEPT !.request = request]]
                /\ UNCHANGED <<exams, issued>>
           ELSE /\ issued.exam < MaxExams
                /\ \E questionIds \in Samples(pool, count) :
                      CreateExam(userId, quizId, questionIds)
                /\ calls' = [calls EXCEPT ![p] =
                       [Returned("startExam", issued.exam + 1, FALSE,
                                 Response([status |-> 200, examId |-> issued.exam + 1]))
                           EXCEPT !.request = request]]
    /\ UNCHANGED <<users, subjects, quizzes, questions, now>>

\* POST /api/auth/login with the right password of user userId: an unknown
\* user is 401; a student whose expiration is earlier than now is 403; else
\* the user is answered and the session names it.
Login(p, userId) ==
    /\ CanCall(p)
    /\ calls' = [calls EXCEPT ![p] =
           [Returned("login", 0, FALSE,
                IF userId \notin DOMAIN users THEN Rejected(401, "Invalid credentials")
                ELSE IF /\ users[userId].role = "student"
                        /\ IsSome(users[userId].expiration)
                        /\ Val(users[userId].expiration) < now
                     THEN Rejected(403, "Access expired")
                     ELSE Response([status |-> 200, id |-> userId]))
               EXCEPT !.request = Some([userId |-> userId])]]
    /\ UNCHANGED <<users, subjects, quizzes, questions, exams, issued, now>>

\* ------------------------------------------------------------- storage calls
\* Answers arrays a client sends: entries name ids that were issued.
AnswerEntries == [questionId : 1..issued.question, answer : Answers]
AnswerPayloads(n) == SeqsUpTo(AnswerEntries, n)

\* A faulty ScoreAnswer: an answer left out counts as right.
ScoreAnswerNullMatches(entry, question) ==
    [questionId |-> entry.questionId,
     questionText |-> question.text,
     userAnswer |-> IF entry.answer # Null THEN question[entry.answer] ELSE Null,
     correctAnswer |-> question[question.correct],
     isCorrect |-> (entry.answer = question.correct \/ entry.answer = Null)]

\* One pass of submitExam's loop body for a resolved question.
ScoreAnswer(entry, question) ==
    [questionId |-> entry.questionId,
     questionText |-> question.text,
     userAnswer |-> IF entry.answer # Null THEN question[entry.answer] ELSE Null,
     correctAnswer |-> question[question.correct],
     isCorrect |-> (entry.answer = question.correct)]

\* A faulty Scored: an id that did not resolve still leaves an entry.
ScoredWithPlaceholder(acc, entry, fetched) ==
    Append(acc, IF IsSome(fetched) THEN ScoreAnswer(entry, Val(fetched))
                ELSE [questionId |-> entry.questionId, questionText |-> Null,
                      userAnswer |-> Null, correctAnswer |-> Null, isCorrect |-> FALSE])

\* `results` after one pass of the loop: `if (!question) continue`, else the
\* scored entry is pushed.
Scored(acc, entry, fetched) ==
    IF IsSome(fetched) THEN Append(acc, ScoreAnswer(entry, Val(fetched))) ELSE acc

\* The summary submitExam builds after its loop.  percentage is the quotient
\* (correctCount / length) * 100, kept as numerator and denominator.
SummaryOf(exam, results, correctCount) ==
    [totalQuestions |-> Len(exam.questionIds),
     correctAnswers |-> correctCount,
     percentage |-> [num |-> correctCount * 100, den |-> Len(exam.questionIds)],
     results |-> results]

\* A faulty CloseExam: the exam keeps only the ids that were scored.
CloseExamResampled(exam, summary) ==
    [exam EXCEPT !.submitted = TRUE, !.results = Some(summary),
                 !.questionIds = [i \in DOMAIN summary.results |->
                                     summary.results[i].questionId]]

\* A faulty CloseExam: the flag is set but the summary is not stored.
CloseExamWithoutResults(exam, summary) ==
    [exam EXCEPT !.submitted = TRUE]

\* A faulty CloseExam: the scored entries are also written to the answers map.
CloseExamRecordsAnswers(exam, summary) ==
    [exam EXCEPT !.submitted = TRUE, !.results = Some(summary),
                 !.answers = [i \in DOMAIN summary.results |->
                                 summary.results[i].userAnswer]]

\* submitExam's last three statements: mark the exam, store the summary.
CloseExam(exam, summary) ==
    [exam EXCEPT !.submitted = TRUE, !.results = Some(summary)]

\* A faulty SubmitError: a submitted exam is reported like a missing one.
SubmitErrorOneKind(examId) ==
    IF examId \notin DOMAIN exams \/ exams[examId].submitted THEN "Exam not found"
    ELSE "none"

\* submitExam's entry check: which error it throws, if any.
SubmitError(examId) ==
    IF examId \notin DOMAIN exams THEN "Exam not found"
    ELSE IF exams[examId].submitted THEN "Exam already submitted"
    ELSE "none"

\* submitExam up to its first await: the entry checks, then either the loop
\* is empty (the summary is stored at once) or getQuestion reads the first
\* question and the call suspends.
SubmitExamBegin(p, examId, answers) ==
    /\ CanCall(p)
    /\ LET err == SubmitError(examId)
           opened == IsOpen(examId)
       IN  IF err # "none"
           THEN /\ calls' = [calls EXCEPT ![p] =
                       Returned("submitExam", examId, opened,
                                [kind |-> "error", value |-> err])]
                /\ UNCHANGED exams
           ELSE IF answers = <<>>
           THEN LET summary == SummaryOf(exams[examId], <<>>, 0)
                IN  /\ exams' = [exams EXCEPT ![examId] = CloseExam(@, summary)]
                    /\ calls' = [calls EXCEPT ![p] =
                           Returned("submitExam", examId, opened,
                                    [kind |-> "summary", value |-> summary])]
           ELSE /\ calls' = [calls EXCEPT ![p] =
                       Call("submitExam", "awaitQuestion", examId, opened, answers, 1,
                            GetQuestion(answers[1].questionId), <<>>, 0, NoRet)]
                /\ UNCHANGED exams
    /\ UNCHANGED <<users, subjects, quizzes, questions, issued, now>>

\* submitExam resumed after `await this.getQuestion(..)`: score the fetched
\* question (skip it when it did not resolve), then fetch the next one and
\* suspend again, or build and store the summary and return it.
SubmitExamResume(p) ==
    /\ calls[p].op = "submitExam" /\ calls[p].pc = "awaitQuestion"
    /\ LET c == calls[p]
           entry == c.answers[c.i]
           hit == IsSome(c.fetched)
           results == Scored(c.acc, entry, c.fetched)
           correctCount == IF hit /\ ScoreAnswer(entry, Val(c.fetched)).isCorrect
                           THEN c.correctCount + 1 ELSE c.correctCount
       IN  IF c.i < Len(c.answers)
           THEN /\ calls' = [calls EXCEPT ![p] =
                       Call("submitExam", "awaitQuestion", c.examId, c.opened, c.answers,
                            c.i + 1, GetQuestion(c.answers[c.i + 1].questionId),
                            results, correctCount, NoRet)]
                /\ UNCHANGED exams
           ELSE LET summary == SummaryOf(exams[c.examId], results, correctCount)
                IN  /\ exams' = [exams EXCEPT ![c.examId] = CloseExam(@, summary)]
                    /\ calls' = [calls EXCEPT ![p] =
                           Returned("submitExam", c.examId, c.opened,
                                    [kind |-> "summary", value |-> summary])]
    /\ UNCHANGED <<users, subjects, quizzes, questions, issued, now>>

\* A faulty ExamQuestionOf: the question is passed on as stored.
ExamQuestionWithKey(question) == question

\* getExam's `const { correct, ...examQuestion } = question`: every field of
\* the question but `correct`.
ExamQuestionOf(question) ==
    [f \in (DOMAIN question) \ {"correct"} |-> question[f]]

ViewOf(exam, quiz, examQuestions) ==
    [examId |-> exam.id, quizName |-> quiz.name, questions |-> examQuestions]

Undefined == [kind |-> "undefined"]

\* A faulty GetExamHidden: only a missing exam is hidden.
GetExamHiddenIfMissing(examId) == examId \notin DOMAIN exams

\* getExam's entry check `!exam || exam.submitted`.
GetExamHidden(examId) == examId \notin DOMAIN exams \/ exams[examId].submitted

\* getExam up to its first await: undefined for a missing or submitted exam,
\* else getQuiz reads the quiz and the call suspends.
GetExamBegin(p, examId) ==
    /\ CanCall(p)
    /\ IF GetExamHidden(examId)
       THEN calls' = [calls EXCEPT ![p] =
                Returned("getExam", examId, IsOpen(examId), Undefined)]
       ELSE calls' = [calls EXCEPT ![p] =
                Call("getExam", "awaitQuiz", examId, IsOpen(examId), <<>>, 0,
                     GetQuiz(exams[examId].quizId), <<>>, 0, NoRet)]
    /\ UNCHANGED <<users, subjects, quizzes, questions, exams, issued, now>>

\* getExam resumed after `await this.getQuiz(..)` or `await
\* this.getQuestion(..)`.
GetExamResume(p) ==
    /\ calls[p].op = "getExam" /\ calls[p].pc \in {"awaitQuiz", "awaitQuestion"}
    /\ LET c == calls[p]
           exam == exams[c.examId]
           quizNow == IF c.pc = "awaitQuiz" THEN c.fetched ELSE c.quiz
           acc == IF c.pc = "awaitQuestion" /\ IsSome(c.fetched)
                  THEN Append(c.acc, ExamQuestionOf(Val(c.fetched))) ELSE c.acc
       IN  IF c.pc = "awaitQuiz" /\ ~IsSome(c.fetched)
           THEN calls' = [calls EXCEPT ![p] =
                    Returned("getExam", c.examId, c.opened, Undefined)]
           ELSE IF c.i < Len(exam.questionIds)
           THEN calls' = [calls EXCEPT ![p] =
                    [Call("getExam", "awaitQuestion", c.examId, c.opened, <<>>, c.i + 1,
                          GetQuestion(exam.questionIds[c.i + 1]), acc, 0, NoRet)
                        EXCEPT !.quiz = quizNow]]
           ELSE calls' = [calls EXCEPT ![p] =
                    Returned("getExam", c.examId, c.opened,
                             [kind |-> "view", value |-> ViewOf(exam, Val(quizNow), acc)])]
    /\ UNCHANGED <<users, subjects, quizzes, questions, exams, issued, now>>

\* A faulty ExamResultsOf: an unsubmitted exam yields an empty summary.
ExamResultsOfAnyExam(examId) ==
    IF examId \notin DOMAIN exams
    THEN Undefined
    ELSE [kind |-> "summary",
          value |-> IF IsSome(exams[examId].results) THEN Val(exams[examId].results)
                    ELSE SummaryOf(exams[examId], <<>>, 0)]

\* getExamResults never suspends: undefined for a missing or unsubmitted
\* exam, else the stored results.
ExamResultsOf(examId) ==
    IF examId \notin DOMAIN exams \/ ~exams[examId].submitted
    THEN Undefined
    ELSE [kind |-> "summary", value |-> Val(exams[examId].results)]

GetExamResults(p, examId) ==
    /\ CanCall(p)
    /\ calls' = [calls EXCEPT ![p] =
           Returned("getExamResults", examId, IsOpen(examId), ExamResultsOf(examId))]
    /\ UNCHANGED <<users, subjects, quizzes, questions, exams, issued, now>>

\* getExam run without interruption over a question store qs: the quiz name
\* and, for each id of the exam's sequence that resolves, the question without
\* its `correct` field.
GetExamView(qs, exam) ==
    IF exam.quizId \notin DOMAIN quizzes THEN Undefined
    ELSE LET found == SelectSeq(exam.questionIds, LAMBDA id : id \in DOMAIN qs)
         IN  [kind |-> "view",
              value |-> ViewOf(exam, quizzes[exam.quizId],
                               [i \in 1..Len(found) |-> ExamQuestionOf(qs[found[i]])])]

\* ------------------------------------------------------------- content calls
\* What a resolved Promise<void> carries.
Void == [kind |-> "void"]

\* Caller p suspended in op at pc, with the call's argument and locals.
Suspended(op, pc, i, locals) ==
    [Call(op, pc, 0, FALSE, <<>>, i, None, <<>>, 0, NoRet) EXCEPT !.request = Some(locals)]

\* The questions map after `this.questions.delete(question.id)` for every
\* question of the array `questions` that deleteQuiz fetched.
WithoutQuestions(qs, fetched) ==
    [id \in {q \in DOMAIN qs : \A k \in DOMAIN fetched : fetched[k] # q} |-> qs[id]]

\* deleteQuiz up to `await this.getQuestionsByQuiz(id)`: the questions naming
\* the quiz are collected, and the call is suspended.
DeleteQuizBegin(p, id) ==
    /\ CanCall(p)
    /\ calls' = [calls EXCEPT ![p] =
           Suspended("deleteQuiz", "awaitQuestions", 0,
                     [id |-> id, quizzes |-> <<>>,
                      questions |-> GetQuestionsByQuiz(questions, id)])]
    /\ UNCHANGED <<users, subjects, quizzes, questions, exams, issued, now>>

\* deleteQuiz after its await: the collected questions are deleted, then the
\* quiz.
DeleteQuizResume(p) ==
    /\ calls[p].op = "deleteQuiz"
    /\ calls[p].pc = "awaitQuestions"
    /\ LET locals == Val(calls[p].request)
       IN  /\ questions' = WithoutQuestions(questions, locals.questions)
           /\ quizzes' = Remove(quizzes, locals.id)
           /\ calls' = [calls EXCEPT ![p] =
                  [Returned("deleteQuiz", 0, FALSE, Void) EXCEPT !.request = Some(locals)]]
    /\ UNCHANGED <<users, subjects, exams, issued, now>>

\* deleteSubject up to `await this.getQuizzesBySubject(id)`: the quizzes
\* naming the subject are collected, and the call is suspended.
DeleteSubjectBegin(p, id) ==
    /\ CanCall(p)
    /\ calls' = [calls EXCEPT ![p] =
           Suspended("deleteSubject", "awaitQuizzes", 0,
                     [id |-> id,
                      quizzes |-> SortedSeq({q \in DOMAIN quizzes : quizzes[q].subjectId = id}),
                      questions |-> <<>>])]
    /\ UNCHANGED <<users, subjects, quizzes, questions, exams, issued, now>>

\* The head of deleteSubject's loop, i quizzes done: the next quiz enters
\* deleteQuiz, which collects its questions and suspends; after the last
\* quiz the subject is deleted and the call returns.
DeleteSubjectNext(p) ==
    /\ calls[p].op = "deleteSubject"
    /\ calls[p].pc \in {"awaitQuizzes", "awaitDeleteQuiz"}
    /\ LET locals == Val(calls[p].request)
           i == calls[p].i
       IN  IF i < Len(locals.quizzes)
           THEN /\ calls' = [calls EXCEPT ![p] =
                       Suspended("deleteSubject", "awaitQuestions", i,
                                 [locals EXCEPT !.questions =
                                      GetQuestionsByQuiz(questions, locals.quizzes[i + 1])])]
                /\ UNCHANGED subjects
           ELSE /\ subjects' = Remove(subjects, locals.id)
                /\ calls' = [calls EXCEPT ![p] =
                       [Returned("deleteSubject", 0, FALSE, Void)
                           EXCEPT !.request = Some(locals)]]
    /\ UNCHANGED <<users, quizzes, questions, exams, issued, now>>

\* deleteQuiz, called by deleteSubject, after its await: the collected
\* questions and the quiz are deleted; deleteSubject waits for the promise.
DeleteSubjectDeleteQuiz(p) ==
    /\ calls[p].op = "deleteSubject"
    /\ calls[p].pc = "awaitQuestions"
    /\ LET locals == Val(calls[p].request)
           i == calls[p].i
       IN  /\ questions' = WithoutQuestions(questions, locals.questions)
           /\ quizzes' = Remove(quizzes, locals.quizzes[i + 1])
           /\ calls' = [calls EXCEPT ![p] =
                  Suspended("deleteSubject", "awaitDeleteQuiz", i + 1, locals)]
    /\ UNCHANGED <<users, subjects, exams, issued, now>>

\* Rows of an uploaded sheet as sheet_to_json yields them; a cell left empty
\* is the empty string here.  The admin of the model leaves option4 or
\* correct empty, or types a key, or types the letter of the right option.
ImportRows ==
    [text : {"t1"}, option1 : {"a"}, option2 : {"b"}, option3 : {"c"},
     option4 : {"d", ""}, correct : {"", "option2", "B"}]

\* `String(cell || fallback)`
OrElse(cell, fallback) == IF cell = "" THEN fallback ELSE cell

\* The import route's question for one row.
RowQuestion(quizId, row) ==
    [quizId |-> quizId, text |-> OrElse(row.text, ""), option1 |-> OrElse(row.option1, ""),
     option2 |-> OrElse(row.option2, ""), option3 |-> OrElse(row.option3, ""),
     option4 |-> OrElse(row.option4, ""), correct |-> OrElse(row.correct, "option1")]

\* The rows the import route keeps: text and the four options are not empty.
RECURSIVE KeptRows(_, _)
KeptRows(quizId, rows) ==
    IF rows = <<>> THEN <<>>
    ELSE LET question == RowQuestion(quizId, Head(rows))
         IN  (IF /\ question.text # "" /\ question.option1 # "" /\ question.option2 # ""
                 /\ question.option3 # "" /\ question.option4 # ""
              THEN <<question>> ELSE <<>>) \o KeptRows(quizId, Tail(rows))

\* createQuestions: createQuestion for each element, ids issued in order.
RECURSIVE CreatedQuestions(_, _, _)
CreatedQuestions(qs, last, inserts) ==
    IF inserts = <<>> THEN qs
    ELSE CreatedQuestions(Put(qs, last + 1, QuestionOf(last + 1, Head(inserts))),
                          last + 1, Tail(inserts))

\* POST /api/questions/import with a file and a quiz id: 400 when no row is
\* kept, else the kept rows are stored and counted.
ImportQuestions(p, quizId, rows) ==
    /\ CanCall(p)
    /\ LET kept == KeptRows(quizId, rows)
           request == Some([quizId |-> quizId, rows |-> rows])
       IN  IF kept = <<>>
           THEN /\ calls' = [calls EXCEPT ![p] =
                       [Returned("import", 0, FALSE,
                                 Rejected(400, "No valid questions found in the file"))
                           EXCEPT !.request = request]]
                /\ UNCHANGED <<questions, issued>>
           ELSE /\ issued.question + Len(kept) <= MaxQuestions
                /\ questions' = CreatedQuestions(questions, issued.question, kept)
                /\ issued' = [issued EXCEPT !.question = issued.question + Len(kept)]
                /\ calls' = [calls EXCEPT ![p] =
                       [Returned("import", 0, FALSE,
                                 Response([status |-> 200, count |-> Len(kept)]))
                           EXCEPT !.request = request]]
    /\ UNCHANGED <<users, subjects, quizzes, exams, now>>

\* ------------------------------------------------------------- routes
\* submitExam run without interruption: `results` after the loop over the
\* answers array.
RECURSIVE ScoredAll(_, _)
ScoredAll(acc, answers) ==
    IF answers = <<>> THEN acc
    ELSE ScoredAll(Scored(acc, Head(answers), GetQuestion(Head(answers).questionId)),
                   Tail(answers))

\* The summary of submitExam run without interruption; correctCount was
\* incremented once for every result pushed with isCorrect.
SubmitSummary(exam, answers) ==
    LET results == ScoredAll(<<>>, answers)
    IN  SummaryOf(exam, results, Cardinality({i \in DOMAIN results : results[i].isCorrect}))

\* POST /api/students/:id/extend: `!hours || typeof hours !== "number" ||
\* hours < 1` is turned down.
ValidHours(hours) ==
    ~(hours.ticks = 0 \/ hours.type # "number" \/ hours.ticks < TicksPerHour)

\* POST /api/students/:id/extend, behind requireAdmin: 400 for invalid hours,
\* 500 when extendUserAccess throws for a missing user, else the user with
\* the new expiration.
ExtendRoute(p, userId, hours) ==
    /\ CanCall(p)
    /\ LET request == Some([userId |-> userId, hours |-> hours])
       IN  IF ~ValidHours(hours)
           THEN /\ calls' = [calls EXCEPT ![p] =
                       [Returned("extend", 0, FALSE, Rejected(400, "Invalid hours"))
                           EXCEPT !.request = request]]
                /\ UNCHANGED users
           ELSE IF userId \notin DOMAIN users
           THEN /\ calls' = [calls EXCEPT ![p] =
                       [Returned("extend", 0, FALSE, Rejected(500, "User not found"))
                           EXCEPT !.request = request]]
                /\ UNCHANGED users
           ELSE /\ ExtendedExpiration(users[userId], hours.ticks) <= MaxTime + TicksPerHour
                /\ users' = [users EXCEPT ![userId].expiration =
                                 Some(ExtendedExpiration(users[userId], hours.ticks))]
                /\ calls' = [calls EXCEPT ![p] =
                       [Returned("extend", 0, FALSE,
                                 Response([status |-> 200, user |-> users'[userId]]))
                           EXCEPT !.request = request]]
    /\ UNCHANGED <<subjects, quizzes, questions, exams, issued, now>>

\* GET /api/student/subjects, behind requireStudent: every subject with the
\* quizzes that name it.
StudentSubjects(p, userId) ==
    /\ CanCall(p)
    /\ LET guard == RequireStudent(userId)
           listing == [sid \in DOMAIN subjects |->
                          [name |-> subjects[sid].name,
                           quizzes |-> {q \in DOMAIN quizzes : quizzes[q].subjectId = sid}]]
       IN  calls' = [calls EXCEPT ![p] =
               [Returned("studentSubjects", 0, FALSE,
                         IF guard # "next" THEN Rejected(403, guard)
                         ELSE Response([status |-> 200, subjects |-> listing]))
                   EXCEPT !.request = Some([userId |-> userId])]]
    /\ UNCHANGED <<users, subjects, quizzes, questions, exams, issued, now>>

\* GET /api/exam/:examId, behind requireStudent: 404 when getExam yields
\* undefined, else the view.
ExamViewRoute(p, userId, examId) ==
    /\ CanCall(p)
    /\ LET guard == RequireStudent(userId)
           view == IF GetExamHidden(examId) THEN Undefined
                   ELSE GetExamView(questions, exams[examId])
       IN  calls' = [calls EXCEPT ![p] =
               [Returned("examView", examId, IsOpen(examId),
                         IF guard # "next" THEN Rejected(403, guard)
                         ELSE IF view.kind = "undefined"
                         THEN Rejected(404, "Exam not found or already submitted")
                         ELSE Response([status |-> 200, view |-> view.value]))
                   EXCEPT !.request = Some([userId |-> userId, examId |-> examId])]]
    /\ UNCHANGED <<users, subjects, quizzes, questions, exams, issued, now>>

\* POST /api/exam/:examId/submit, behind requireStudent: 500 with the message
\* submitExam throws, else the summary, which the exam now stores.
ExamSubmitRoute(p, userId, examId, answers) ==
    /\ CanCall(p)
    /\ LET guard == RequireStudent(userId)
           err == SubmitError(examId)
           request == Some([userId |-> userId, examId |-> examId, answers |-> answers])
       IN  IF guard # "next"
           THEN /\ calls' = [calls EXCEPT ![p] =
                       [Returned("examSubmit", examId, IsOpen(examId), Rejected(403, guard))
                           EXCEPT !.request = request]]
                /\ UNCHANGED exams
           ELSE IF err # "none"
           THEN /\ calls' = [calls EXCEPT ![p] =
                       [Returned("examSubmit", examId, IsOpen(examId), Rejected(500, err))
                           EXCEPT !.request = request]]
                /\ UNCHANGED exams
           ELSE LET summary == SubmitSummary(exams[examId], answers)
                IN  /\ exams' = [exams EXCEPT ![examId] = CloseExam(@, summary)]
                    /\ calls' = [calls EXCEPT ![p] =
                           [Returned("examSubmit", examId, IsOpen(examId),
                                     Response([status |-> 200, summary |-> summary]))
                               EXCEPT !.request = request]]
    /\ UNCHANGED <<users, subjects, quizzes, questions, issued, now>>

\* GET /api/exam/:examId/results, behind requireStudent: 404 when
\* getExamResults yields undefined, else the stored summary.
ExamResultsRoute(p, userId, examId) ==
    /\ CanCall(p)
    /\ LET guard == RequireStudent(userId)
           results == ExamResultsOf(examId)
       IN  calls' = [calls EXCEPT ![p] =
               [Returned("examResults", examId, IsOpen(examId),
                         IF guard # "next" THEN Rejected(403, guard)
                         ELSE IF results.kind = "undefined"
                         THEN Rejected(404, "Results not found")
                         ELSE Response([status |-> 200, results |-> results.value]))
                   EXCEPT !.request = Some([userId |-> userId, examId |-> examId])]]
    /\ UNCHANGED <<users, subjects, quizzes, questions, exams, issued, now>>

\* ------------------------------------------------------------- specifications
ExamIdArgs == 1..MaxExams
Hours == {1}

\* No storage call is suspended at an await.
Quiet == \A p \in Procs : calls[p].pc \in {"idle", "returned"}

\* Users, subjects and the clock.
NextAdmin ==
    \/ Tick
    \/ \E h \in Hours : CreateUser(Some(now + h))
    \/ \E id \in UserIdsAll : DeleteUser(id)
    \/ \E id \in UserIdsAll, h \in Hours : ExtendUserAccess(id, h)
    \/ \E name \in SubjectNames : CreateSubject(name)
    \/ \E id \in 1..issued.subject, name \in SubjectNames : UpdateSubject(id, name)
    \/ \E id \in 1..issued.subject : DeleteSubject(id)

\* Quizzes, questions and the start of an exam.
NextStore ==
    \/ \E sid \in 1..issued.subject, name \in QuizNames : CreateQuiz(sid, name)
    \/ \E id \in 1..issued.quiz, sid \in 1..issued.subject, name \in QuizNames :
          UpdateQuiz(id, sid, name)
    \/ \E id \in 1..issued.quiz : DeleteQuiz(id)
    \/ \E ins \in InsertQuestions : CreateQuestion(ins)
    \/ \E id \in 1..issued.question, ins \in InsertQuestions : UpdateQuestion(id, ins)
    \/ \E id \in 1..issued.question : DeleteQuestion(id)
    \/ \E u \in UserIdsAll, qz \in 1..issued.quiz, n \in CountArgs : StartExam("a", u, qz, n)

\* The exam calls of the callers P, with answers arrays of at most n entries.
NextCalls(P, n) ==
    \/ \E p \in P, e \in ExamIdArgs, a \in AnswerPayloads(n) : SubmitExamBegin(p, e, a)
    \/ \E p \in P : SubmitExamResume(p)
    \/ \E p \in P, e \in ExamIdArgs : GetExamBegin(p, e)
    \/ \E p \in P : GetExamResume(p)
    \/ \E p \in P, e \in ExamIdArgs : GetExamResults(p, e)

\* Spec: the whole store, one request at a time.  Every promise MemStorage
\* awaits is already settled, so a handler entered for one HTTP request runs
\* through all its awaits before the handler of the next request is entered;
\* a call, once begun, is resumed until it returns.
Next ==
    \/ Quiet /\ NextAdmin
    \/ Quiet /\ NextStore
    \/ NextCalls({"a"}, MaxAnswers)

Spec == Init /\ [][Next]_vars

\* A store an admin has filled: one subject, one quiz with two questions, one
\* student, and one exam the student has started on that quiz.
InitSeeded ==
    /\ users = (AdminId :> [id |-> AdminId, username |-> "admin", role |-> "admin",
                            expiration |-> None])
               @@ (1 :> [id |-> 1, username |-> "student", role |-> "student",
                         expiration |-> Some(1)])
    /\ subjects = (1 :> [id |-> 1, name |-> "s1"])
    /\ quizzes = (1 :> [id |-> 1, subjectId |-> 1, name |-> "n1", description |-> ""])
    /\ \E i1, i2 \in {ins \in [quizId : {1}, text : {"t1"}, option1 : {"a"}, option2 : {"b"},
                               option3 : {"c"}, option4 : {"d"}, correct : CorrectKeys] : TRUE} :
          questions = (1 :> QuestionOf(1, i1)) @@ (2 :> QuestionOf(2, i2))
    /\ \E n \in QuestionCounts : \E questionIds \in Samples(<<1, 2>>, n) :
          exams = (1 :> NewExam(1, 1, 1, questionIds))
    /\ issued = [user |-> 1, subject |-> 1, quiz |-> 1, question |-> 2, exam |-> 1]
    /\ now = 0
    /\ calls = [p \in Procs |-> Idle]

\* SpecRace: calls issued in the same tick (Promise.all over storage calls)
\* interleave at their awaits, with each other and with question edits.
NextRace ==
    \/ NextCalls(Procs, MaxAnswers)
    \/ \E id \in 1..issued.question, ins \in InsertQuestions : UpdateQuestion(id, ins)
    \/ \E id \in 1..issued.question : DeleteQuestion(id)

SpecRace == InitSeeded /\ [][NextRace]_vars

\* SpecScore: one caller, longer answers arrays.
NextScore ==
    \/ NextCalls({"a"}, MaxScoreAnswers)

SpecScore == InitSeeded /\ [][NextScore]_vars

\* The seeded store with the two questions keyed differently, and an exam
\* on the first question or on both.
InitScoring ==
    /\ InitSeeded
    /\ questions[1].correct = "option1"
    /\ questions[2].correct = "option2"
    /\ exams[1].questionIds \in {<<1>>, <<2, 1>>}

\* SpecScoring: one caller, longer answers arrays, and questions deleted
\* between two requests.
NextScoring ==
    \/ NextCalls({"a"}, MaxScoreAnswers)
    \/ Quiet /\ \E id \in 1..issued.question : DeleteQuestion(id)

SpecScoring == InitScoring /\ [][NextScoring]_vars

\* A store with one subject and one quiz, before any question or student.
InitStart ==
    /\ users = (AdminId :> [id |-> AdminId, username |-> "admin", role |-> "admin",
                            expiration |-> None])
    /\ subjects = (1 :> [id |-> 1, name |-> "s1"])
    /\ quizzes = (1 :> [id |-> 1, subjectId |-> 1, name |-> "n1", description |-> ""])
    /\ questions = <<>>
    /\ exams = <<>>
    /\ issued = [user |-> 0, subject |-> 1, quiz |-> 1, question |-> 0, exam |-> 0]
    /\ now = 0
    /\ calls = [p \in Procs |-> Idle]

\* SpecStart: the start and login routes and everything they read: the
\* student and the clock, the quiz and its pool.
NextStart ==
    \/ Tick
    \/ \E h \in Hours : CreateUser(Some(now + h))
    \/ \E id \in UserIdsAll : DeleteUser(id)
    \/ \E id \in UserIdsAll, h \in Hours : ExtendUserAccess(id, h)
    \/ \E id \in 1..issued.quiz : DeleteQuiz(id)
    \/ \E ins \in {i \in InsertQuestions : i.correct = "option1"} : CreateQuestion(ins)
    \/ \E id \in 1..issued.question : DeleteQuestion(id)
    \/ \E u \in UserIdsAll, qz \in 1..issued.quiz, n \in CountArgs : StartExam("a", u, qz, n)
    \/ \E u \in UserIdsAll : Login("a", u)

SpecStart == InitStart /\ [][NextStart]_vars

\* A store an admin has filled, and two students: student 1, whose access
\* ended before now, ends now or ends later, and student 2, whose access never
\* ends.
InitStudents ==
    /\ \E expiration \in {Some(0 - 1), Some(0), Some(1)} :
          users = (AdminId :> [id |-> AdminId, username |-> "admin", role |-> "admin",
                               expiration |-> None])
                  @@ (1 :> [id |-> 1, username |-> "student", role |-> "student",
                            expiration |-> expiration])
                  @@ (2 :> [id |-> 2, username |-> "student2", role |-> "student",
                            expiration |-> None])
    /\ subjects = (1 :> [id |-> 1, name |-> "s1"])
    /\ quizzes = (1 :> [id |-> 1, subjectId |-> 1, name |-> "n1", description |-> ""])
    /\ questions = (1 :> QuestionOf(1, [quizId |-> 1, text |-> "t1", option1 |-> "a",
                                        option2 |-> "b", option3 |-> "c", option4 |-> "d",
                                        correct |-> "option1"]))
                   @@ (2 :> QuestionOf(2, [quizId |-> 1, text |-> "t1", option1 |-> "a",
                                           option2 |-> "b", option3 |-> "c", option4 |-> "d",
                                           correct |-> "option2"]))
    /\ now = 0
    /\ calls = [p \in Procs |-> Idle]

\* Nobody has started an exam yet.
InitExtend ==
    /\ InitStudents
    /\ exams = <<>>
    /\ issued = [user |-> 2, subject |-> 1, quiz |-> 1, question |-> 2, exam |-> 0]

\* SpecExtend: the admin's extend route, the clock, and the student's routes
\* that list the subjects (one browser tab, caller b) and start an exam
\* (another, caller a); one request at a time.
NextExtend ==
    \/ Tick
    \/ \E u \in 1..(issued.user + 1), h \in HoursArgs : ExtendRoute("a", u, h)
    \/ StudentSubjects("b", 1)
    \/ \E qz \in 1..issued.quiz, n \in QuestionCounts : StartExam("a", 1, qz, n)

SpecExtend == InitExtend /\ [][NextExtend]_vars

\* Student 1 has started an exam on the quiz and has not submitted it.
InitAccess ==
    /\ InitStudents
    /\ exams = (1 :> NewExam(1, 1, 1, <<2, 1>>))
    /\ issued = [user |-> 2, subject |-> 1, quiz |-> 1, question |-> 2, exam |-> 1]

\* SpecAccess: the exam routes behind requireStudent for the owner of the exam
\* and for another student (views from caller b), the clock, and the admin's
\* extend route; one request at a time.
NextAccess ==
    \/ Tick
    \/ \E h \in HoursArgs : ExtendRoute("a", 1, h)
    \/ \E u \in StudentIds, e \in ExamIdArgs : ExamViewRoute("b", u, e)
    \/ \E u \in StudentIds, e \in ExamIdArgs, a \in AccessAnswers :
          ExamSubmitRoute("a", u, e, a)
    \/ \E u \in StudentIds, e \in ExamIdArgs : ExamResultsRoute("a", u, e)

SpecAccess == InitAccess /\ [][NextAccess]_vars

\* SpecContent: the admin's content.  Caller a deletes a quiz or a subject,
\* suspended at each await of the storage; creations, updates and imports
\* (caller b) run between its steps.
NextContent ==
    \/ \E name \in SubjectNames : CreateSubject(name)
    \/ \E sid \in 1..(issued.subject + 1), name \in QuizNames : CreateQuiz(sid, name)
    \/ \E ins \in InsertQuestions : CreateQuestion(ins)
    \/ \E id \in 1..issued.question, ins \in InsertQuestions : UpdateQuestion(id, ins)
    \/ \E qz \in 1..issued.quiz, rows \in SeqsUpTo(ImportRows, MaxQuestions) :
          ImportQuestions("b", qz, rows)
    \/ \E id \in 1..issued.quiz : DeleteQuizBegin("a", id)
    \/ DeleteQuizResume("a")
    \/ \E id \in 1..issued.subject : DeleteSubjectBegin("a", id)
    \/ DeleteSubjectNext("a")
    \/ DeleteSubjectDeleteQuiz("a")

SpecContent == Init /\ [][NextContent]_vars

\* Two students have each started an exam on the quiz; neither is submitted.
InitSessions ==
    /\ InitStudents
    /\ users[1].expiration = Some(1)
    /\ exams = (1 :> NewExam(1, 1, 1, <<2, 1>>)) @@ (2 :> NewExam(2, 2, 1, <<1>>))
    /\ issued = [user |-> 2, subject |-> 1, quiz |-> 1, question |-> 2, exam |-> 2]

\* SpecSessions: the storage's exam calls on two exams and on an id no exam
\* has; one call at a time.
NextSessions ==
    \/ \E e \in 1..(issued.exam + 1), a \in AnswerPayloads(MaxAnswers) :
          SubmitExamBegin("a", e, a)
    \/ SubmitExamResume("a")
    \/ \E e \in 1..(issued.exam + 1) : GetExamBegin("a", e)
    \/ GetExamResume("a")
    \/ \E e \in 1..(issued.exam + 1) : GetExamResults("a", e)

SpecSessions == InitSessions /\ [][NextSessions]_vars

\* ------------------------------------------------------------- claims
ReturnedFrom(p, op) == calls[p].pc = "returned" /\ calls[p].op = op
\* The step changed caller p's slot, and the slot now holds a value returned by op.
ReturnsNow(p, op) ==
    /\ calls'[p] # calls[p]
    /\ calls'[p].pc = "returned"
    /\ calls'[p].op = op
\* The step entered a call of op for caller p.
EntersNow(p, op) ==
    /\ calls[p].pc \in {"idle", "returned"}
    /\ calls'[p] # calls[p]
    /\ calls'[p].op = op

\* C1: of two submitExam calls that both entered while the same exam was
\* open, exactly one returns a summary and the other fails with 'Exam already
\* submitted', and the exam stores the summary the successful call returned.
C1_SingleSubmission ==
    \A p, q \in Procs :
        ( /\ p # q
          /\ ReturnedFrom(p, "submitExam") /\ ReturnedFrom(q, "submitExam")
          /\ calls[p].examId = calls[q].examId
          /\ calls[p].opened /\ calls[q].opened )
        => \/ /\ calls[p].ret.kind = "summary"
              /\ calls[q].ret = [kind |-> "error", value |-> "Exam already submitted"]
              /\ exams[calls[p].examId].results = Some(calls[p].ret.value)
           \/ /\ calls[q].ret.kind = "summary"
              /\ calls[p].ret = [kind |-> "error", value |-> "Exam already submitted"]
              /\ exams[calls[q].examId].results = Some(calls[q].ret.value)

\* C2: every stored exam has results if and only if its submitted flag is set.
C2_ResultsIffSubmitted ==
    \A e \in DOMAIN exams : IsSome(exams[e].results) <=> exams[e].submitted

C2_Witness ==
    \E e \in DOMAIN exams : exams[e].submitted /\ IsSome(exams[e].results)

\* One step of C3: an exam is stored with submitted = FALSE, the flag turns TRUE only in
\* a step in which a submitExam call on that exam returns its summary, and no
\* step clears the flag or removes an exam.
C3_SubmittedStep ==
    /\ \A e \in DOMAIN exams :
          /\ e \in DOMAIN exams'
          /\ exams[e].submitted => exams'[e].submitted
          /\ (~exams[e].submitted /\ exams'[e].submitted) =>
                \E p \in Procs : /\ ReturnsNow(p, "submitExam")
                                 /\ calls'[p].examId = e
                                 /\ calls'[p].ret.kind = "summary"
    /\ \A e \in (DOMAIN exams') \ (DOMAIN exams) : ~exams'[e].submitted

\* C3 (every step): an exam is stored with submitted = FALSE, the flag turns TRUE only in
\* a step in which a submitExam call on that exam returns its summary, and no
\* step clears the flag or removes an exam.
C3_SubmittedPermanent == [][C3_SubmittedStep]_vars

\* A submitted exam outlives its owner, its quiz and its questions.
C3_Witness ==
    \E e \in DOMAIN exams :
        /\ exams[e].submitted
        /\ exams[e].userId \notin DOMAIN users
        /\ exams[e].quizId \notin DOMAIN quizzes
        /\ \A i \in DOMAIN exams[e].questionIds : exams[e].questionIds[i] \notin DOMAIN questions

\* Every store that differs from qs only in the `correct` keys of its questions.
CorrectVariants(qs) ==
    { [id \in DOMAIN qs |-> [qs[id] EXCEPT !.correct = k[id]]] : k \in [DOMAIN qs -> OptionKeys] }

\* One step of C4: a view returned by getExam has no `correct` field in any of its
\* questions, and it is the view getExam yields over every store that differs
\* from the current one only in the questions' correct keys.
C4_ViewStep ==
    \A p \in Procs :
        (ReturnsNow(p, "getExam") /\ calls'[p].ret.kind = "view") =>
            LET view == calls'[p].ret.value
                exam == exams[calls'[p].examId]
            IN  /\ \A i \in DOMAIN view.questions : "correct" \notin DOMAIN view.questions[i]
                /\ \A alt \in CorrectVariants(questions) : calls'[p].ret = GetExamView(alt, exam)

\* C4 (every step): a view returned by getExam has no `correct` field in any of its
\* questions, and it is the view getExam yields over every store that differs
\* from the current one only in the questions' correct keys.
C4_ViewHidesCorrect == [][C4_ViewStep]_vars

C4_Witness ==
    \E p \in Procs :
        /\ ReturnedFrom(p, "getExam")
        /\ calls[p].ret.kind = "view"
        /\ Len(calls[p].ret.value.questions) = 2

\* One step of C5: a submitExam entered for an id that is not stored throws 'Exam not
\* found', one entered for a submitted exam throws 'Exam already submitted',
\* and a step in which submitExam throws leaves `exams` as it was.
C5_SubmitErrorStep ==
    \A p \in Procs :
        /\ EntersNow(p, "submitExam") =>
              LET e == calls'[p].examId
              IN  /\ e \notin DOMAIN exams =>
                        /\ calls'[p].pc = "returned"
                        /\ calls'[p].ret = [kind |-> "error", value |-> "Exam not found"]
                  /\ (e \in DOMAIN exams /\ exams[e].submitted) =>
                        /\ calls'[p].pc = "returned"
                        /\ calls'[p].ret = [kind |-> "error", value |-> "Exam already submitted"]
        /\ (ReturnsNow(p, "submitExam") /\ calls'[p].ret.kind = "error") => exams' = exams

\* C5 (every step): a submitExam entered for an id that is not stored throws 'Exam not
\* found', one entered for a submitted exam throws 'Exam already submitted',
\* and a step in which submitExam throws leaves `exams` as it was.
C5_SubmitErrors == [][C5_SubmitErrorStep]_vars

C5_Witness ==
    \E p \in Procs :
        /\ ReturnedFrom(p, "submitExam")
        /\ calls[p].ret = [kind |-> "error", value |-> "Exam already submitted"]
        /\ calls[p].examId \in DOMAIN exams
        /\ exams[calls[p].examId].submitted

\* One step of C6: a getExam entered for an id that is not stored or for a submitted exam
\* returns undefined at once, and a view is returned only by a call that found
\* the exam stored and not submitted when it was entered.
C6_GetExamStep ==
    \A p \in Procs :
        /\ EntersNow(p, "getExam") =>
              LET e == calls'[p].examId
              IN  (e \notin DOMAIN exams \/ exams[e].submitted) =>
                      /\ calls'[p].pc = "returned"
                      /\ calls'[p].ret.kind = "undefined"
        /\ (ReturnsNow(p, "getExam") /\ calls'[p].ret.kind = "view") =>
              /\ calls'[p].examId \in DOMAIN exams
              /\ calls'[p].opened

\* C6 (every step): a getExam entered for an id that is not stored or for a submitted exam
\* returns undefined at once, and a view is returned only by a call that found
\* the exam stored and not submitted when it was entered.
C6_NoViewAfterSubmit == [][C6_GetExamStep]_vars

C6_Witness ==
    \E p \in Procs :
        /\ ReturnedFrom(p, "getExam")
        /\ calls[p].ret.kind = "undefined"
        /\ calls[p].examId \in DOMAIN exams
        /\ exams[calls[p].examId].submitted
        /\ exams[calls[p].examId].quizId \in DOMAIN quizzes

\* One step of C7: getExamResults returns the stored summary of a submitted exam, and
\* undefined for an id that is not stored or an exam that is not submitted.
C7_ResultsStep ==
    \A p \in Procs :
        EntersNow(p, "getExamResults") =>
            LET e == calls'[p].examId
            IN  /\ calls'[p].pc = "returned"
                /\ IF e \in DOMAIN exams /\ exams[e].submitted
                   THEN calls'[p].ret = [kind |-> "summary", value |-> Val(exams[e].results)]
                   ELSE calls'[p].ret.kind = "undefined"

\* C7 (every step): getExamResults returns the stored summary of a submitted exam, and
\* undefined for an id that is not stored or an exam that is not submitted.
C7_ResultsOnlyWhenClosed == [][C7_ResultsStep]_vars

C7_Witness ==
    \E p \in Procs :
        /\ ReturnedFrom(p, "getExamResults")
        /\ calls[p].ret.kind = "summary"
        /\ Len(calls[p].ret.value.results) = 1

\* One step of C8: once an exam is submitted it stays stored and its summary is never
\* replaced, whatever runs afterwards.
C8_SummaryStep ==
    \A e \in DOMAIN exams :
        exams[e].submitted => (e \in DOMAIN exams' /\ exams'[e].results = exams[e].results)

\* C8 (every step): once an exam is submitted it stays stored and its summary is never
\* replaced, whatever runs afterwards.
C8_SummaryNeverReplaced == [][C8_SummaryStep]_vars

\* C9: a summary returned by submitExam holds exactly one result for every id
\* of the exam's questionIds, so as many results as totalQuestions.
C9_OneResultPerQuestion ==
    \A p \in Procs :
        (ReturnedFrom(p, "submitExam") /\ calls[p].ret.kind = "summary") =>
            LET summary == calls[p].ret.value
                ids == exams[calls[p].examId].questionIds
            IN  /\ Len(summary.results) = summary.totalQuestions
                /\ \A k \in DOMAIN ids :
                      Cardinality({i \in DOMAIN summary.results :
                                      summary.results[i].questionId = ids[k]}) = 1

PositionIn(seq, x) == CHOOSE i \in DOMAIN seq : seq[i] = x

\* C10: the results of a summary returned by submitExam follow the order of
\* the exam's questionIds.
C10_ResultsInSessionOrder ==
    \A p \in Procs :
        (ReturnedFrom(p, "submitExam") /\ calls[p].ret.kind = "summary") =>
            LET results == calls[p].ret.value.results
                ids == exams[calls[p].examId].questionIds
            IN  \A i, j \in DOMAIN results :
                    ( /\ i < j
                      /\ results[i].questionId \in Range(ids)
                      /\ results[j].questionId \in Range(ids) )
                    => PositionIn(ids, results[i].questionId)
                          <= PositionIn(ids, results[j].questionId)

\* C11: in every summary submitExam returns, totalQuestions is the length of
\* the exam's questionIds, correctAnswers is the number of results with
\* isCorrect = TRUE, and 0 <= correctAnswers <= totalQuestions, so that the
\* percentage lies in 0..100.
C11_SummaryCounts ==
    \A p \in Procs :
        (ReturnedFrom(p, "submitExam") /\ calls[p].ret.kind = "summary") =>
            LET summary == calls[p].ret.value
                ids == exams[calls[p].examId].questionIds
            IN  /\ summary.totalQuestions = Len(ids)
                /\ summary.correctAnswers =
                      Cardinality({i \in DOMAIN summary.results : summary.results[i].isCorrect})
                /\ 0 <= summary.correctAnswers
                /\ summary.correctAnswers <= summary.totalQuestions
                /\ 0 <= summary.percentage.num
                /\ summary.percentage.num <= 100 * summary.percentage.den

\* The entries of an answers array whose question id resolves in the store.
Resolved(answers) == SelectSeq(answers, LAMBDA a : a.questionId \in DOMAIN questions)

\* One step of C12: when a submitExam call returns, it returns a summary, and the result
\* of each scored answer has isCorrect = TRUE exactly when the answer is the
\* question's stored correct key; a null answer gives userAnswer = null and
\* isCorrect = FALSE; any other answer gives the text of the chosen option as
\* userAnswer; correctAnswer is the text of the option the stored key names.
C12_ScoreStep ==
    \A p \in Procs :
        (calls[p].op = "submitExam" /\ calls[p].pc = "awaitQuestion"
            /\ calls'[p].pc = "returned") =>
            /\ calls'[p].ret.kind = "summary"
            /\ LET known == Resolved(calls[p].answers)
                   results == calls'[p].ret.value.results
               IN  /\ Len(results) = Len(known)
                   /\ \A i \in DOMAIN results :
                         LET q == questions[known[i].questionId]
                             a == known[i].answer
                         IN  /\ results[i].isCorrect <=> (a = q.correct)
                             /\ a = Null => (results[i].userAnswer = Null /\ ~results[i].isCorrect)
                             /\ a # Null => results[i].userAnswer = q[a]
                             /\ results[i].correctAnswer = q[q.correct]

\* C12 (every step): isCorrect is TRUE exactly when the answer is the stored
\* correct key; a null answer is scored wrong with userAnswer = null and raises
\* no error; userAnswer and correctAnswer are option texts, not keys.
C12_ScoredByStoredKey == [][C12_ScoreStep]_vars

\* A summary with a null answer scored wrong next to a right answer.
C12_Witness ==
    \E p \in Procs :
        /\ ReturnedFrom(p, "submitExam")
        /\ calls[p].ret.kind = "summary"
        /\ Len(calls[p].ret.value.results) = 2
        /\ calls[p].ret.value.results[1].userAnswer = Null
        /\ ~calls[p].ret.value.results[1].isCorrect
        /\ calls[p].ret.value.results[2].isCorrect
        /\ calls[p].ret.value.results[2].userAnswer \in {"a", "b"}

\* The step answered a start request of caller p that passed the guard and
\* the schema.
StartAnswered(p) ==
    /\ ReturnsNow(p, "startExam")
    /\ RequireStudent(Val(calls'[p].request).userId) = "next"
    /\ ValidCount(Val(calls'[p].request).count)

\* One step of C13: a start request that names a quiz which is not stored is
\* answered with an error other than the one for a pool that is too small, and
\* stores no exam.
C13_MissingQuizStep ==
    \A p \in Procs :
        (StartAnswered(p) /\ Val(calls'[p].request).quizId \notin DOMAIN quizzes) =>
            /\ calls'[p].ret.value.status >= 400
            /\ calls'[p].ret.value.message # "Not enough questions"
            /\ exams' = exams

\* C13 (every step): start on a quiz id that does not resolve fails with a
\* not-found error, distinct from the insufficient-pool error, and creates no
\* exam.
C13_MissingQuizNotFound == [][C13_MissingQuizStep]_vars

\* The number of stored questions that name the quiz.
PoolSize(quizId) == Cardinality({id \in DOMAIN questions : questions[id].quizId = quizId})

\* One step of C14: a start request for more questions than the quiz's pool
\* holds is answered 400 with the pool size and the requested count, and the
\* step stores no exam and issues no exam id.
C14_InsufficientPoolStep ==
    \A p \in Procs :
        (StartAnswered(p)
            /\ Val(calls'[p].request).count > PoolSize(Val(calls'[p].request).quizId)) =>
            /\ calls'[p].ret.value.status = 400
            /\ calls'[p].ret.value.message = "Not enough questions"
            /\ calls'[p].ret.value.has = PoolSize(Val(calls'[p].request).quizId)
            /\ calls'[p].ret.value.requested = Val(calls'[p].request).count
            /\ exams' = exams
            /\ issued' = issued

\* C14 (every step): a requested count above the pool size is rejected with
\* an error that carries the pool size and the count, and no exam is created.
C14_InsufficientPool == [][C14_InsufficientPoolStep]_vars

\* Two questions asked of a pool of one.
C14_Witness ==
    \E p \in Procs :
        /\ ReturnedFrom(p, "startExam")
        /\ calls[p].ret = NotEnough(1, 2)
        /\ PoolSize(Val(calls[p].request).quizId) = 1
        /\ exams = <<>>

\* One step of C15: when start creates an exam, the sequence it stores has as
\* many ids as were requested, no id twice, and every id is that of a stored
\* question of the requested quiz.
C15_SampleStep ==
    \A p \in Procs :
        (StartAnswered(p) /\ calls'[p].ret.value.status = 200) =>
            LET request == Val(calls'[p].request)
                ids == exams'[calls'[p].examId].questionIds
            IN  /\ request.count <= PoolSize(request.quizId)
                /\ Len(ids) = request.count
                /\ \A i, j \in DOMAIN ids : ids[i] = ids[j] => i = j
                /\ \A i \in DOMAIN ids :
                      /\ ids[i] \in DOMAIN questions
                      /\ questions[ids[i]].quizId = request.quizId

\* C15 (every step): for a count within the pool size, start hands createExam
\* exactly that many pairwise distinct ids of the quiz's pool, whatever order
\* the random comparator leaves.
C15_SampleFromPool == [][C15_SampleStep]_vars

\* A sample of a pool of two, in the order opposite to the pool's.
C15_Witness ==
    \E p \in Procs :
        /\ ReturnedFrom(p, "startExam")
        /\ calls[p].ret.value.status = 200
        /\ exams[calls[p].examId].questionIds = <<2, 1>>

\* One step of C16: an exam that appears in the store was created by a start
\* request whose count is one of the schema's buckets and no more than the
\* pool size, and holds exactly that many ids, so at least one; a start
\* request with any other count is answered with the schema's 400 and stores
\* nothing.
C16_CountStep ==
    /\ \A e \in (DOMAIN exams') \ (DOMAIN exams) :
          \E p \in Procs :
              /\ ReturnsNow(p, "startExam")
              /\ calls'[p].examId = e
              /\ Val(calls'[p].request).count \in QuestionCounts
              /\ Val(calls'[p].request).count <= PoolSize(Val(calls'[p].request).quizId)
              /\ Len(exams'[e].questionIds) = Val(calls'[p].request).count
              /\ Len(exams'[e].questionIds) > 0
    /\ \A p \in Procs :
          ( /\ ReturnsNow(p, "startExam")
            /\ RequireStudent(Val(calls'[p].request).userId) = "next"
            /\ Val(calls'[p].request).count \notin QuestionCounts ) =>
              /\ calls'[p].ret = Rejected(400, "Invalid enum value")
              /\ exams' = exams
              /\ issued' = issued

\* C16 (every step): every exam start creates has as many question ids as
\* were requested, the count being one of the schema's buckets and within the
\* pool size, so never zero; any other count is a validation error and
\* nothing is sampled or stored.
C16_CountInSchema == [][C16_CountStep]_vars

\* A count outside the schema is turned down although the pool would do, and
\* an exam created earlier has one id.
C16_Witness ==
    \E p \in Procs :
        /\ ReturnedFrom(p, "startExam")
        /\ calls[p].ret = Rejected(400, "Invalid enum value")
        /\ Val(calls[p].request).count = 0
        /\ PoolSize(Val(calls[p].request).quizId) = 2
        /\ \E e \in DOMAIN exams : Len(exams[e].questionIds) = 1

\* One step of C17: every stored exam stays stored with the questionIds
\* sequence, the userId and the quizId it had.
C17_FixedStep ==
    \A e \in DOMAIN exams :
        /\ e \in DOMAIN exams'
        /\ exams'[e].questionIds = exams[e].questionIds
        /\ exams'[e].userId = exams[e].userId
        /\ exams'[e].quizId = exams[e].quizId

\* C17 (every step): an exam's questionIds (elements and order), userId and
\* quizId never change after createExam, whatever is called or edited later.
C17_SequenceFixed == [][C17_FixedStep]_vars

\* A submitted exam still lists, in its order, a question that was deleted.
C17_Witness ==
    \E e \in DOMAIN exams :
        /\ exams[e].submitted
        /\ exams[e].questionIds = <<2, 1>>
        /\ 2 \notin DOMAIN questions
        /\ 1 \in DOMAIN questions
        /\ exams[e].quizId \in DOMAIN quizzes

\* One step of C18: a getExam call that found the exam open returns a view
\* with the quiz name and one entry for each id of the exam's questionIds, in
\* that order, each with id, text and the four options.
C18_ViewCompleteStep ==
    \A p \in Procs :
        (ReturnsNow(p, "getExam") /\ calls'[p].opened) =>
            /\ calls'[p].ret.kind = "view"
            /\ LET view == calls'[p].ret.value
                   ids == exams[calls'[p].examId].questionIds
               IN  /\ Len(view.questions) = Len(ids)
                   /\ \A i \in DOMAIN ids :
                         /\ view.questions[i].id = ids[i]
                         /\ {"text", "option1", "option2", "option3", "option4"}
                               \subseteq DOMAIN view.questions[i]

\* C18 (every step): for an open exam getExam succeeds and returns the quiz
\* name and exactly one entry per id of the fixed sequence, in its order, also
\* after questions or the quiz were edited or deleted.
C18_ViewComplete == [][C18_ViewCompleteStep]_vars

\* One step of C19: when a submitExam call returns, it returns a summary and
\* the exam is submitted, whatever ids the answers name; the summary is the one
\* the answers give once the entries whose id does not resolve are left out:
\* no result and no count for them, the others scored in their order.
C19_SkipStep ==
    \A p \in Procs :
        (calls[p].op = "submitExam" /\ calls[p].pc = "awaitQuestion"
            /\ calls'[p].pc = "returned") =>
            LET known == Resolved(calls[p].answers)
                exam == exams[calls[p].examId]
                scored == [i \in 1..Len(known) |->
                              ScoreAnswer(known[i], questions[known[i].questionId])]
                right == Cardinality({i \in 1..Len(known) : scored[i].isCorrect})
            IN  /\ calls'[p].ret = [kind |-> "summary",
                                    value |-> SummaryOf(exam, scored, right)]
                /\ exams'[calls[p].examId].submitted
                /\ exams'[calls[p].examId].results = Some(SummaryOf(exam, scored, right))

\* C19 (every step): an answer whose question id does not resolve is skipped:
\* it adds no result and no correct count, the submission succeeds and closes
\* the exam, and the other answers are scored as if it were absent.
C19_UnknownSkipped == [][C19_SkipStep]_vars

\* The loop has passed over a first entry whose id does not resolve, with
\* nothing pushed, and is about to score the second, which does.
C19_Witness ==
    \E p \in Procs :
        /\ calls[p].op = "submitExam" /\ calls[p].pc = "awaitQuestion"
        /\ calls[p].i = 2
        /\ calls[p].answers[1].questionId \notin DOMAIN questions
        /\ calls[p].acc = <<>>
        /\ calls[p].correctCount = 0
        /\ IsSome(calls[p].fetched)

\* A student is active: no expiration, or an expiration later than now.
Active(user) == ~IsSome(user.expiration) \/ Val(user.expiration) > now

\* One step of C20: a guarded request and a login of a stored student are
\* turned down with 'Access expired' exactly when the student is not active
\* by the expiration stored at that moment.
C20_ActiveStep ==
    \A p \in Procs :
        ( /\ (ReturnsNow(p, "startExam") \/ ReturnsNow(p, "login"))
          /\ Val(calls'[p].request).userId \in DOMAIN users
          /\ users[Val(calls'[p].request).userId].role = "student" ) =>
            ( calls'[p].ret = Rejected(403, "Access expired")
                <=> ~Active(users[Val(calls'[p].request).userId]) )

\* C20 (every step): a student without expiration is always active; one with
\* an expiration is active iff expiration > now, strictly, judged by the
\* stored expiration at every guarded request and at login.
C20_ActiveIffLater == [][C20_ActiveStep]_vars

\* The extend request of caller p was answered with the extended user.
ExtendAnswered(p) ==
    /\ ReturnsNow(p, "extend")
    /\ calls'[p].ret.value.status = 200

\* One step of C21: an extend request that succeeds leaves the user with the
\* later of the old expiration and now, plus the hours; an expiration that is
\* missing or already past counts from now.
C21_ExtendStep ==
    \A p \in Procs :
        ExtendAnswered(p) =>
            LET u == Val(calls'[p].request).userId
                added == Val(calls'[p].request).hours.ticks
                old == users[u].expiration
                base == IF IsSome(old) /\ Val(old) > now THEN Val(old) ELSE now
            IN  /\ users'[u].expiration = Some(base + added)
                /\ calls'[p].ret.value.user.expiration = Some(base + added)

\* C21: extendUserAccess sets the expiration to max(current expiration, now)
\* plus the requested hours, so a lapsed student gets now + hours.
C21_ExtendFromLater == [][C21_ExtendStep]_vars

\* Student 1, whose stored expiration was not later than now, was extended to
\* one hour from now.
C21_Witness ==
    /\ ReturnedFrom("a", "extend")
    /\ calls["a"].ret.value.status = 200
    /\ now = 1
    /\ Val(calls["a"].request).userId = 1
    /\ users[1].expiration = Some(now + TicksPerHour)

\* The hours of a request are a whole, positive number of hours.
PositiveInteger(hours) ==
    /\ hours.type = "number"
    /\ hours.ticks > 0
    /\ hours.ticks % TicksPerHour = 0

\* One step of C22: an extend request is answered with the extended user only
\* if its hours are a positive integer; any other hours are answered with a
\* validation error and the stored expiration stays as it was.
C22_HoursStep ==
    \A p \in Procs :
        ReturnsNow(p, "extend") =>
            LET hours == Val(calls'[p].request).hours
            IN  /\ calls'[p].ret.value.status = 200 => PositiveInteger(hours)
                /\ ~PositiveInteger(hours) =>
                       /\ calls'[p].ret.value.status = 400
                       /\ users' = users

\* C22: extending succeeds only for hours that are a positive integer; zero,
\* negative, fractional and non-numeric hours are rejected with a validation
\* error and change no expiration.
C22_PositiveIntegerHours == [][C22_HoursStep]_vars

\* The stored expiration of user u is present and earlier than now.
Passed(u) ==
    /\ u \in DOMAIN users
    /\ IsSome(users[u].expiration)
    /\ Val(users[u].expiration) < now

\* The slot holds the reply 403 'Access expired'.
AccessExpired(call) ==
    /\ call.ret.value.status = 403
    /\ call.ret.value.message = "Access expired"

\* One step of C23: a start or subject-listing request of a student whose
\* expiration has passed is answered 'Access expired' and stores no exam; the
\* request of a student whose expiration has not passed is not turned down for
\* it, and the listing is served; a successful extend leaves an expiration
\* that has not passed.
C23_GateStep ==
    \A p \in Procs :
        /\ \A op \in {"startExam", "studentSubjects"} :
              ReturnsNow(p, op) =>
                  LET u == Val(calls'[p].request).userId
                  IN  /\ Passed(u) =>
                             /\ AccessExpired(calls'[p])
                             /\ exams' = exams
                             /\ issued' = issued
                      /\ (~Passed(u) /\ u \in DOMAIN users /\ users[u].role = "student") =>
                             /\ ~AccessExpired(calls'[p])
                             /\ op = "studentSubjects" => calls'[p].ret.value.status = 200
                             /\ (op = "startExam" /\ calls'[p].ret.value.status = 200) =>
                                    /\ DOMAIN exams' = DOMAIN exams \cup {calls'[p].ret.value.examId}
                                    /\ exams'[calls'[p].ret.value.examId].userId = u
        /\ ExtendAnswered(p) =>
              Val(users'[Val(calls'[p].request).userId].expiration) > now'

\* C23: a student whose expiration has passed gets no exam and no subject
\* listing, only 'Access expired' with the exams untouched; once the access
\* is extended the same session is served again.
C23_ExpiredNotServed == [][C23_GateStep]_vars

\* At one instant the listing was refused to student 1 for a passed
\* expiration and, the access having been extended, a start request of the
\* same student created an exam.
C23_Witness ==
    /\ now = 0
    /\ ReturnedFrom("b", "studentSubjects")
    /\ Val(calls["b"].request).userId = 1
    /\ AccessExpired(calls["b"])
    /\ ReturnedFrom("a", "startExam")
    /\ Val(calls["a"].request).userId = 1
    /\ calls["a"].ret.value.status = 200
    /\ 1 \in DOMAIN exams

\* One step of C24: when deleteQuiz(q) returns no stored question names q;
\* when deleteSubject(s) returns no stored quiz names s and no stored question
\* names a quiz that named s.
C24_CascadeStep ==
    \A p \in Procs :
        /\ ReturnsNow(p, "deleteQuiz") =>
              \A id \in DOMAIN questions' :
                  questions'[id].quizId # Val(calls'[p].request).id
        /\ ReturnsNow(p, "deleteSubject") =>
              LET locals == Val(calls'[p].request)
              IN  /\ \A q \in DOMAIN quizzes' : quizzes'[q].subjectId # locals.id
                  /\ \A id \in DOMAIN questions' :
                         \A k \in DOMAIN locals.quizzes :
                             questions'[id].quizId # locals.quizzes[k]

\* C24: deleting a quiz leaves no question of it, and deleting a subject
\* leaves no quiz of it and no question of such a quiz, also when creations
\* run while the deletion is under way.
C24_CascadeComplete == [][C24_CascadeStep]_vars

\* C25: the correct key of every stored question is one of the four option
\* keys and the option it names is not empty, whichever of create, update and
\* import stored the question.
C25_CorrectNamesOption ==
    \A id \in DOMAIN questions :
        /\ questions[id].correct \in OptionKeys
        /\ questions[id][questions[id].correct] # ""

\* One step of C26: a quiz that enters the store names a stored subject.
C26_SubjectStep ==
    \A id \in (DOMAIN quizzes') \ (DOMAIN quizzes) :
        quizzes'[id].subjectId \in DOMAIN subjects

\* C26: a quiz is created only when its subjectId is the id of a stored
\* subject; otherwise the request is rejected and no quiz is stored.
C26_QuizNeedsSubject == [][C26_SubjectStep]_vars

ExamRoutes == {"examView", "examSubmit", "examResults"}

\* One step of C27: a view, submit or results request on a stored exam is
\* answered with success only to the student the exam records; the request of
\* any other student leaves the exam as it was.
C27_OwnerStep ==
    \A p \in Procs : \A op \in ExamRoutes :
        ReturnsNow(p, op) =>
            LET request == Val(calls'[p].request)
            IN  (request.examId \in DOMAIN exams
                    /\ request.userId # exams[request.examId].userId) =>
                        /\ calls'[p].ret.value.status # 200
                        /\ exams' = exams

\* C27: only the owner of an exam can view it, submit it or read its results;
\* another student is rejected and the exam is unchanged.
C27_OwnerOnly == [][C27_OwnerStep]_vars

\* C28: every result of a summary submitExam returns is for a question of the
\* exam's questionIds, so an answer naming a stored question the exam did not
\* sample adds no result and no correct answer.
C28_OnlySampledScored ==
    \A p \in Procs :
        (ReturnedFrom(p, "submitExam") /\ calls[p].ret.kind = "summary") =>
            LET summary == calls[p].ret.value
                ids == exams[calls[p].examId].questionIds
            IN  /\ \A i \in DOMAIN summary.results :
                       \E k \in DOMAIN ids : ids[k] = summary.results[i].questionId
                /\ summary.correctAnswers <=
                       Cardinality({i \in DOMAIN summary.results :
                           /\ summary.results[i].isCorrect
                           /\ \E k \in DOMAIN ids : ids[k] = summary.results[i].questionId})

ExamCalls == {"submitExam", "getExam", "getExamResults"}

\* One step of C29: no step of submitExam, getExam or getExamResults changes
\* a user, subject, quiz or question; the step on which submitExam returns
\* its summary for exam S sets S.submitted and S.results and leaves the other
\* fields of S and every other exam alone; every other step of the three
\* calls leaves the exams alone.
C29_FrameStep ==
    \A p \in Procs :
        (calls'[p] # calls[p] /\ calls'[p].op \in ExamCalls) =>
            /\ users' = users
            /\ subjects' = subjects
            /\ quizzes' = quizzes
            /\ questions' = questions
            /\ IF /\ calls'[p].op = "submitExam"
                  /\ calls'[p].pc = "returned"
                  /\ calls'[p].ret.kind = "summary"
               THEN LET S == calls'[p].examId
                    IN  /\ DOMAIN exams' = DOMAIN exams
                        /\ \A e \in DOMAIN exams \ {S} : exams'[e] = exams[e]
                        /\ exams'[S].id = exams[S].id
                        /\ exams'[S].userId = exams[S].userId
                        /\ exams'[S].quizId = exams[S].quizId
                        /\ exams'[S].questionIds = exams[S].questionIds
                        /\ exams'[S].answers = exams[S].answers
                        /\ exams'[S].submitted
                        /\ exams'[S].results = Some(calls'[p].ret.value)
               ELSE exams' = exams

\* C29: a successful submitExam on an exam changes that exam's submitted flag
\* and results and nothing else in the store; getExam and getExamResults
\* change nothing.
C29_SubmitFrame == [][C29_FrameStep]_vars

\* The second exam has just been submitted with a scored answer, next to the
\* first exam, which was submitted before with another summary.
C29_Witness ==
    /\ ReturnedFrom("a", "submitExam")
    /\ calls["a"].ret.kind = "summary"
    /\ calls["a"].examId = 2
    /\ Len(calls["a"].ret.value.results) > 0
    /\ exams[1].submitted
    /\ exams[1].results # exams[2].results

\* One step of C30 for the owner's requests: a view, submit or results
\* request of a student whose expiration has passed is answered 'Access
\* expired' and leaves the exams alone; a submit of the owner whose
\* expiration has not passed, on the open exam, succeeds.
C30_OwnerGateStep ==
    \A p \in Procs : \A op \in ExamRoutes :
        ReturnsNow(p, op) =>
            LET request == Val(calls'[p].request)
            IN  /\ Passed(request.userId) =>
                       /\ AccessExpired(calls'[p])
                       /\ exams' = exams
                /\ (/\ op = "examSubmit"
                    /\ ~Passed(request.userId)
                    /\ IsOpen(request.examId)
                    /\ exams[request.examId].userId = request.userId) =>
                       /\ calls'[p].ret.value.status = 200
                       /\ exams'[request.examId].submitted

\* One step of C30 for the exam: while the expiration of its owner has passed,
\* an open exam is left as it is by every step.
C30_StaysOpenStep ==
    \A e \in DOMAIN exams :
        (~exams[e].submitted /\ Passed(exams[e].userId)) =>
            (e \in DOMAIN exams' /\ exams'[e] = exams[e])

\* The owner's requests alone: gated by the expiration.
C30_OwnerGated == [][C30_OwnerGateStep]_vars

\* C30: once the owner's expiration has passed, every view, submit and
\* results request is answered 'Access expired' without touching the exams,
\* so the exam stays open until the access is extended, and then the owner's
\* submit succeeds on it.
C30_GateHoldsExamOpen == [][C30_OwnerGateStep /\ C30_StaysOpenStep]_vars

====
